---- MODULE Spec2Model ----
(***************************************************************************)
(* A model of the labour-tracking UI: the cost formula of the entry form   *)
(* and of the report screen, the report's groupEntriesByDate, the entry    *)
(* form's draft session with saveDaily, the category manager and the       *)
(* report screen's fetchData.                                              *)
(*                                                                         *)
(* Numbers.  Rates, hours and head counts are integers.  An overtime       *)
(* multiplier is held in tenths (15 is 1.5) and every cost is held in      *)
(* tenths of the currency unit (33000 is 3300), so that the arithmetic of  *)
(* the model is exact.  The multipliers the model draws (0, 1, 1.5, 2) and *)
(* all the integers it reaches are exactly representable as IEEE doubles   *)
(* and far below 2^53, so on these inputs the program's arithmetic is      *)
(* exact as well; rounding of sums that a double cannot hold is not        *)
(* modelled.                                                               *)
(*                                                                         *)
(* Strings that the program takes apart or compares (entry_date) are       *)
(* sequences of one-character strings; strings it only copies or tests     *)
(* for emptiness are TLA+ strings.                                         *)
(***************************************************************************)
EXTENDS Integers, Sequences, FiniteSets, TLC

VARIABLES
  \* cost formula harness: one input and the two screens' results
  costIn, formCost, reportCost, costDone,
  \* groupEntriesByDate harness: the input collection and the returned reports
  entriesIn, grouped, groupPc,
  \* entry form (DailyEntryForm): its React state, ...
  workerCategories, siteId, entries, currentEntry,
  \* ... the mount-time category request, the last reading of Date.now(), the
  \* saveDaily invocations (the closure of each, its position and its outcome)
  \* and the daily_entries table
  formFetch, now, saves, dailyEntries,
  \* category manager (WorkerCategoryManager): its React state, its outstanding
  \* requests, the number of inserts and updates it has sent, the
  \* worker_categories table and the notification raised by the latest step
  categories, newCategory, editingId, catReqs, catCalls, catStore, catToast,
  \* report screen (ReportsSection): whether its mount effect has run, its React
  \* state and its outstanding fetchData requests (the filters each was built
  \* with)
  mounted, loading, reportData, reportSiteId, startDate, reportReqs,
  \* the notification fetchData last raised ("none" before the first)
  reportToast

costVars  == <<costIn, formCost, reportCost, costDone>>
groupVars == <<entriesIn, grouped, groupPc>>
formVars  == <<workerCategories, siteId, entries, currentEntry, formFetch, now,
               saves, dailyEntries>>
catVars   == <<categories, newCategory, editingId, catReqs, catCalls, catStore,
               catToast>>
reportVars == <<mounted, loading, reportData, reportSiteId, startDate, reportReqs,
               reportToast>>
vars == <<costVars, groupVars, formVars, catVars, reportVars>>

-----------------------------------------------------------------------------
(* Bounds *)

MaxEntries == 3
\* the draft list holds at most MaxDrafts items
MaxDrafts == 2
\* Date.now() reads at most MaxClock
MaxClock == 1
\* saveDaily is invoked at most MaxSaves times
MaxSaves == 2
\* the category manager sends at most MaxCatCalls inserts and updates
MaxCatCalls == 2
\* the report screen has at most MaxReportReqs requests outstanding
MaxReportReqs == 2

-----------------------------------------------------------------------------
(* Strings as character sequences *)

D01 == <<"2","0","2","5","-","0","6","-","0","1">>
D02 == <<"2","0","2","5","-","0","6","-","0","2">>
D03 == <<"2","0","2","5","-","0","6","-","0","3">>
TimeOfDay == <<"1","0",":","0","0",":","0","0">>

\* "2025-06-01T10:00:00" and "2025-06-01 10:00:00"
WithT(day)     == day \o <<"T">> \o TimeOfDay
WithSpace(day) == day \o <<" ">> \o TimeOfDay

\* the least member of a non-empty set of positions
First(at) == CHOOSE i \in at : \A j \in at : i <= j

\* s.split(sep)[0]: the part of s before the first sep, all of s when it has none
SplitFirst(s, sep) ==
  LET at == {i \in 1..Len(s) : s[i] = sep}
  IN  IF at = {} THEN s
      ELSE SubSeq(s, 1, First(at) - 1)

\* the calendar day of a stored date: what precedes its time suffix, whether
\* the suffix starts with "T" or with a space
CalendarDay(entry_date) == SplitFirst(SplitFirst(entry_date, "T"), " ")

\* The collation rank of the characters of a timestamp: white space, then
\* punctuation, then digits, then letters.
CharRank(c) ==
  CASE c = " " -> 0
    [] c = "-" -> 1
    [] c = ":" -> 2
    [] c = "0" -> 10 [] c = "1" -> 11 [] c = "2" -> 12 [] c = "3" -> 13
    [] c = "4" -> 14 [] c = "5" -> 15 [] c = "6" -> 16 [] c = "7" -> 17
    [] c = "8" -> 18 [] c = "9" -> 19
    [] c = "T" -> 30

\* a.localeCompare(b): negative, zero or positive
RECURSIVE localeCompare(_, _)
localeCompare(a, b) ==
  IF a = <<>> /\ b = <<>> THEN 0
  ELSE IF a = <<>> THEN -1
  ELSE IF b = <<>> THEN 1
  ELSE IF CharRank(Head(a)) < CharRank(Head(b)) THEN -1
  ELSE IF CharRank(Head(a)) > CharRank(Head(b)) THEN 1
  ELSE localeCompare(Tail(a), Tail(b))

-----------------------------------------------------------------------------
(* Cost formula: the report screen *)

\* the multiplier the report uses when an entry carries none
DefaultMultiplier == 15

\* calculateTotalCost(rate, normalHours, overtimeHours, multiplier, workers),
\* the result in tenths
calculateTotalCost(rate, normalHours, overtimeHours, multiplier, workers) ==
  LET normalCost == rate * normalHours * workers * 10
      otCost     == rate * overtimeHours * multiplier * workers
  IN  normalCost + otCost

\* entry.overtime_multiplier || 1.5: an absent field is undefined, and
\* undefined and 0 are both falsy
EntryMultiplier(entry) ==
  IF "overtime_multiplier" \in DOMAIN entry /\ entry.overtime_multiplier # 0
  THEN entry.overtime_multiplier
  ELSE DefaultMultiplier

\* the per-entry cost computed in the loop of groupEntriesByDate
EntryCost(entry) ==
  calculateTotalCost(entry.rate, entry.normal_hours, entry.overtime_hours,
                     EntryMultiplier(entry), entry.num_workers)

(* Cost formula: the entry form *)

\* calculateCost(normalHours, overtimeHours, workerCount, hourlyRate,
\* overtimeMultiplier), the result in tenths
calculateCost(normalHours, overtimeHours, workerCount, hourlyRate, overtimeMultiplier) ==
  LET normalCost   == normalHours * hourlyRate * 10
      overtimeCost == overtimeHours * hourlyRate * overtimeMultiplier
  IN  (normalCost + overtimeCost) * workerCount

-----------------------------------------------------------------------------
(* groupEntriesByDate *)

\* entry.entry_date.split("T")[0] || entry.entry_date.split(" ")[0]: the empty
\* string is falsy
DateOnly(entry_date) ==
  IF SplitFirst(entry_date, "T") # <<>>
  THEN SplitFirst(entry_date, "T")
  ELSE SplitFirst(entry_date, " ")

\* grouped[dateOnly]: the position of the day's group, 0 when it has none yet
IndexOfDay(acc, dateOnly) ==
  LET at == {i \in 1..Len(acc) : acc[i].date = dateOnly}
  IN  IF at = {} THEN 0 ELSE First(at)

\* categories.find((c) => c.name === name): the position of the first
\* subtotal of that name, 0 when there is none
IndexOfCategory(subtotals, name) ==
  LET at == {i \in 1..Len(subtotals) : subtotals[i].name = name}
  IN  IF at = {} THEN 0 ELSE First(at)

\* A bug for UpdateCategories: the subtotal of a category that is already
\* listed is overwritten instead of added to.
UpdateCategoriesOverwrite(subtotals, entry, totalCost) ==
  LET existing == IndexOfCategory(subtotals, entry.category)
  IN  IF existing # 0
      THEN [subtotals EXCEPT ![existing].workers = entry.num_workers,
                              ![existing].cost    = totalCost]
      ELSE Append(subtotals, [name |-> entry.category,
                               workers |-> entry.num_workers,
                               cost |-> totalCost])

\* A bug for UpdateCategories: every entry pushes a subtotal of its own.
UpdateCategoriesAlwaysPush(subtotals, entry, totalCost) ==
  Append(subtotals, [name |-> entry.category,
                      workers |-> entry.num_workers,
                      cost |-> totalCost])

\* categories.find((c) => c.name === entry.category), then add to the subtotal
\* found or push a new one
UpdateCategories(subtotals, entry, totalCost) ==
  LET existing == IndexOfCategory(subtotals, entry.category)
  IN  IF existing # 0
      THEN [subtotals EXCEPT ![existing].workers = @ + entry.num_workers,
                              ![existing].cost    = @ + totalCost]
      ELSE Append(subtotals, [name |-> entry.category,
                               workers |-> entry.num_workers,
                               cost |-> totalCost])

\* One iteration of the loop: `acc` is Object.values(grouped), the day groups
\* in the order their keys were inserted.
GroupStep(acc, entry) ==
  LET dateOnly  == DateOnly(entry.entry_date)
      totalCost == EntryCost(entry)
      at        == IndexOfDay(acc, dateOnly)
      acc1      == IF at = 0
                   THEN Append(acc, [date |-> dateOnly, totalWorkers |-> 0,
                                     totalCost |-> 0, categories |-> <<>>,
                                     entries |-> <<>>])
                   ELSE acc
      k         == IF at = 0 THEN Len(acc1) ELSE at
      g         == acc1[k]
  IN  [acc1 EXCEPT ![k] = [date         |-> g.date,
                           totalWorkers |-> g.totalWorkers + entry.num_workers,
                           totalCost    |-> g.totalCost + totalCost,
                           entries      |-> Append(g.entries, entry),
                           categories   |-> UpdateCategories(g.categories, entry, totalCost)]]

RECURSIVE GroupLoop(_, _)
GroupLoop(acc, rest) ==
  IF rest = <<>> THEN acc
  ELSE GroupLoop(GroupStep(acc, Head(rest)), Tail(rest))

\* the comparator of the final sort: (a, b) => b.date.localeCompare(a.date)
ByDateDescending(a, b) == localeCompare(b.date, a.date)

\* Array.prototype.sort with the comparator above (stable): insert r after
\* every element that does not sort after it
RECURSIVE InsertSorted(_, _)
InsertSorted(sorted, r) ==
  IF sorted = <<>> THEN <<r>>
  ELSE IF ByDateDescending(Head(sorted), r) <= 0
       THEN <<Head(sorted)>> \o InsertSorted(Tail(sorted), r)
       ELSE <<r>> \o sorted

RECURSIVE SortReports(_)
SortReports(reports) ==
  IF reports = <<>> THEN <<>>
  ELSE InsertSorted(SortReports(SubSeq(reports, 1, Len(reports) - 1)),
                    reports[Len(reports)])

groupEntriesByDate(rows) == SortReports(GroupLoop(<<>>, rows))

-----------------------------------------------------------------------------
(* Inputs *)

\* the inputs of the cost formula; "m" is absent when the entry carries no
\* multiplier
CostInputs ==
  LET nums == [rate : {0, 100, 150}, nh : {0, 8}, oh : {0, 2}, wc : {1, 3}]
  IN  nums \cup {n @@ [m |-> m] : n \in nums, m \in {0, 10, 15, 20}}

\* the persisted entry of a cost input
AsEntry(in) ==
  LET base == [entry_date |-> D01, category |-> "Mason", site_id |-> "site1",
               rate |-> in.rate, normal_hours |-> in.nh,
               overtime_hours |-> in.oh, num_workers |-> in.wc]
  IN  IF "m" \in DOMAIN in THEN base @@ [overtime_multiplier |-> in.m] ELSE base

EntryDates == {D01, WithT(D01), WithSpace(D01), D02, WithT(D03)}

\* persisted entries: Mason at 100 an hour, as 3 workers with no multiplier
\* stored or as 2 workers with multiplier 2, and Helper at 60 an hour, as 3
\* workers with no multiplier stored
EntryUniverse ==
  LET Row(d, name, rate, n) ==
        [entry_date |-> d, category |-> name, rate |-> rate, normal_hours |-> 8,
         overtime_hours |-> 2, num_workers |-> n, site_id |-> "site1"]
  IN  UNION {{Row(d, "Mason", 100, 3),
              Row(d, "Mason", 100, 2) @@ [overtime_multiplier |-> 20],
              Row(d, "Helper", 60, 3)} : d \in EntryDates}

SeqsUpTo(S, n) == UNION {[1..k -> S] : k \in 0..n}

-----------------------------------------------------------------------------
(* The cost formula applied to an input *)

CostIdle ==
  /\ costIn = [rate |-> 0, nh |-> 0, oh |-> 0, wc |-> 1]
  /\ formCost = 0 /\ reportCost = 0 /\ costDone = {}

GroupIdle == entriesIn = <<>> /\ grouped = <<>> /\ groupPc = "idle"

\* the entry form as constructed: useState initial values, nothing requested
FormIdle ==
  /\ workerCategories = <<>>
  /\ siteId = ""
  /\ entries = <<>>
  /\ currentEntry = [category |-> "", normalHours |-> 8, overtimeHours |-> 0,
                     workerCount |-> 1]
  /\ formFetch = "pending"
  /\ now = 0
  /\ saves = <<>>
  /\ dailyEntries = <<>>

\* editingId when no category is being edited (null)
NullId == 0

EmptyNewCategory ==
  [name |-> "", short_code |-> "", hourly_rate |-> 0, overtime_multiplier |-> 15]

\* the worker_categories table when the category manager opens
CatStoreInit ==
  <<[id |-> 1, name |-> "Mason", short_code |-> "M", hourly_rate |-> 100,
     overtime_multiplier |-> 15, is_active |-> TRUE]>>

\* the category manager as constructed; its mount effect has called
\* fetchCategories
CatIdle ==
  /\ categories = <<>>
  /\ newCategory = EmptyNewCategory
  /\ editingId = NullId
  /\ catReqs = <<[kind |-> "fetch", phase |-> "sent"]>>
  /\ catCalls = 0
  /\ catStore = CatStoreInit
  /\ catToast = "none"

\* the report screen as constructed: useState initial values, the mount
\* effect not yet run
ReportIdle ==
  /\ mounted = FALSE
  /\ loading = FALSE
  /\ reportData = <<>>
  /\ reportSiteId = "all"
  /\ startDate = D01
  /\ reportReqs = <<>>
  /\ reportToast = "none"

CostInit ==
  /\ costIn \in CostInputs
  /\ formCost = 0 /\ reportCost = 0 /\ costDone = {}
  /\ GroupIdle /\ FormIdle /\ CatIdle /\ ReportIdle

\* addEntry costs a draft with the multiplier of its category
ApplyCalculateCost ==
  /\ "form" \notin costDone
  /\ "m" \in DOMAIN costIn
  /\ formCost' = calculateCost(costIn.nh, costIn.oh, costIn.wc, costIn.rate, costIn.m)
  /\ costDone' = costDone \cup {"form"}
  /\ UNCHANGED <<costIn, reportCost, groupVars, formVars, catVars, reportVars>>

\* groupEntriesByDate costs a persisted entry
ApplyEntryCost ==
  /\ "report" \notin costDone
  /\ reportCost' = EntryCost(AsEntry(costIn))
  /\ costDone' = costDone \cup {"report"}
  /\ UNCHANGED <<costIn, formCost, groupVars, formVars, catVars, reportVars>>

CostNext == ApplyCalculateCost \/ ApplyEntryCost

SpecCost == CostInit /\ [][CostNext]_vars

-----------------------------------------------------------------------------
(* groupEntriesByDate applied to a collection *)

GroupInit ==
  /\ entriesIn \in SeqsUpTo(EntryUniverse, MaxEntries)
  /\ grouped = <<>> /\ groupPc = "idle"
  /\ CostIdle /\ FormIdle /\ CatIdle /\ ReportIdle

ApplyGroup ==
  /\ groupPc = "idle"
  /\ grouped' = groupEntriesByDate(entriesIn)
  /\ groupPc' = "done"
  /\ UNCHANGED <<entriesIn, costVars, formVars, catVars, reportVars>>

GroupNext == ApplyGroup

SpecGroup == GroupInit /\ [][GroupNext]_vars

-----------------------------------------------------------------------------
(* The entry form (DailyEntryForm) *)

\* the worker_categories table as the entry form finds it
FormCategoryStore ==
  <<[id |-> "c1", name |-> "Mason", short_code |-> "M", hourly_rate |-> 100,
     overtime_multiplier |-> 15, is_active |-> TRUE],
    [id |-> "c2", name |-> "Helper", short_code |-> "H", hourly_rate |-> 60,
     overtime_multiplier |-> 20, is_active |-> TRUE],
    [id |-> "c3", name |-> "Fitter", short_code |-> "F", hourly_rate |-> 80,
     overtime_multiplier |-> 15, is_active |-> FALSE]>>

\* the date input is left at its initial value
SelectedDate == D01

\* the identity supabase.auth.getUser() returns for a valid session
CurrentUser == [id |-> "u1", email |-> "supervisor@site"]

IsActive(cat) == cat.is_active

FormInit == FormIdle /\ CostIdle /\ GroupIdle /\ CatIdle /\ ReportIdle

\* the mount effect's fetchCategories: select("*").eq("is_active", true)
FormFetchCategoriesOk ==
  /\ formFetch = "pending"
  /\ workerCategories' = SelectSeq(FormCategoryStore, IsActive)
  /\ formFetch' = "done"
  /\ UNCHANGED <<siteId, entries, currentEntry, now, saves, dailyEntries>>
  /\ UNCHANGED <<costVars, groupVars, catVars, reportVars>>

FormFetchCategoriesError ==
  /\ formFetch = "pending"
  /\ formFetch' = "done"
  /\ UNCHANGED <<workerCategories, siteId, entries, currentEntry, now, saves,
                 dailyEntries>>
  /\ UNCHANGED <<costVars, groupVars, catVars, reportVars>>

\* the Site select: one of the listed sites
SetSiteId(site) ==
  /\ siteId' = site
  /\ UNCHANGED <<workerCategories, entries, currentEntry, formFetch, now, saves,
                 dailyEntries>>
  /\ UNCHANGED <<costVars, groupVars, catVars, reportVars>>

\* the Category select of the Add Worker card: one of the loaded categories
\* (the hour and head count inputs are left at their initial values)
SetCategory(id) ==
  /\ \E i \in 1..Len(workerCategories) : workerCategories[i].id = id
  /\ currentEntry' = [currentEntry EXCEPT !.category = id]
  /\ UNCHANGED <<workerCategories, siteId, entries, formFetch, now, saves,
                 dailyEntries>>
  /\ UNCHANGED <<costVars, groupVars, catVars, reportVars>>

\* workerCategories.find((cat) => cat.id === id): its position, 0 when none
IndexOfCategoryId(cats, id) ==
  LET at == {i \in 1..Len(cats) : cats[i].id = id}
  IN  IF at = {} THEN 0 ELSE First(at)

\* addEntry with no category selected
AddEntryNoCategory ==
  /\ currentEntry.category = ""
  /\ UNCHANGED <<workerCategories, siteId, entries, currentEntry, formFetch, now,
                 saves, dailyEntries>>
  /\ UNCHANGED <<costVars, groupVars, catVars, reportVars>>

\* addEntry: Date.now() reads t, no earlier than its last reading; the id of
\* the draft is that reading (its decimal string, which is one-to-one)
AddEntry(t) ==
  /\ currentEntry.category # ""
  /\ Len(entries) < MaxDrafts
  /\ t >= now
  /\ LET at == IndexOfCategoryId(workerCategories, currentEntry.category)
     IN  /\ at # 0
         /\ LET selected == workerCategories[at]
                cost == calculateCost(currentEntry.normalHours,
                                      currentEntry.overtimeHours,
                                      currentEntry.workerCount,
                                      selected.hourly_rate,
                                      selected.overtime_multiplier)
                newEntry == [id |-> t,
                             category |-> selected.name \o " (" \o selected.short_code \o ")",
                             normalHours |-> currentEntry.normalHours,
                             overtimeHours |-> currentEntry.overtimeHours,
                             workerCount |-> currentEntry.workerCount,
                             rate |-> selected.hourly_rate,
                             totalCost |-> cost]
            IN  entries' = Append(entries, newEntry)
  /\ now' = t
  /\ currentEntry' = [category |-> "", normalHours |-> 8, overtimeHours |-> 0,
                      workerCount |-> 1]
  /\ UNCHANGED <<workerCategories, siteId, formFetch, saves, dailyEntries>>
  /\ UNCHANGED <<costVars, groupVars, catVars, reportVars>>

\* removeEntry(id): entries.filter((e) => e.id !== id), from the Minus button
\* of a listed draft
RemoveEntry(id) ==
  /\ \E i \in 1..Len(entries) : entries[i].id = id
  /\ LET Other(e) == e.id # id IN entries' = SelectSeq(entries, Other)
  /\ UNCHANGED <<workerCategories, siteId, currentEntry, formFetch, now, saves,
                 dailyEntries>>
  /\ UNCHANGED <<costVars, groupVars, catVars, reportVars>>

\* A saveDaily invocation: `site` and `drafts` are siteId and entries as its
\* closure holds them, `auth` what getUser returned ("none" before it has),
\* `pc` where the invocation stands ("getUser", "insert") or the notification
\* it returned with: "rejected" (Site not selected, No entries, User not
\* authenticated), "saved" (Entries saved) or "failed" (Save failed).
NewSave(pc) == [pc |-> pc, site |-> siteId, drafts |-> entries, auth |-> "none"]

\* an invocation that has returned: its closure is gone
Returned(save, pc) == [pc |-> pc, site |-> "", drafts |-> <<>>, auth |-> save.auth]

\* saveDaily with no site chosen
SaveDailyNoSite ==
  /\ Len(saves) < MaxSaves
  /\ siteId = ""
  /\ saves' = Append(saves, Returned(NewSave("rejected"), "rejected"))
  /\ UNCHANGED <<workerCategories, siteId, entries, currentEntry, formFetch, now,
                 dailyEntries>>
  /\ UNCHANGED <<costVars, groupVars, catVars, reportVars>>

\* saveDaily with an empty draft list (the Save button is rendered only with a
\* non-empty list; the handler checks all the same)
SaveDailyNoEntries ==
  /\ Len(saves) < MaxSaves
  /\ siteId # ""
  /\ Len(entries) = 0
  /\ saves' = Append(saves, Returned(NewSave("rejected"), "rejected"))
  /\ UNCHANGED <<workerCategories, siteId, entries, currentEntry, formFetch, now,
                 dailyEntries>>
  /\ UNCHANGED <<costVars, groupVars, catVars, reportVars>>

\* saveDaily past its two checks: it awaits supabase.auth.getUser()
SaveDailyStart ==
  /\ Len(saves) < MaxSaves
  /\ siteId # ""
  /\ Len(entries) # 0
  /\ saves' = Append(saves, NewSave("getUser"))
  /\ UNCHANGED <<workerCategories, siteId, entries, currentEntry, formFetch, now,
                 dailyEntries>>
  /\ UNCHANGED <<costVars, groupVars, catVars, reportVars>>

\* A bug for AuthRejected: a response without a user passes when it carries no
\* error.
AuthRejectedOnErrorOnly(auth) == auth = "error"

\* userError || !user
AuthRejected(auth) == auth \in {"error", "nouser"}

\* getUser answers invocation k: an error, no user, or the user
SaveDailyGetUser(k, auth) ==
  /\ k \in 1..Len(saves)
  /\ saves[k].pc = "getUser"
  /\ IF AuthRejected(auth)
     THEN /\ saves' = [saves EXCEPT ![k] = Returned([@ EXCEPT !.auth = auth], "rejected")]
     ELSE /\ saves' = [saves EXCEPT ![k].pc = "insert", ![k].auth = auth]
  /\ UNCHANGED <<workerCategories, siteId, entries, currentEntry, formFetch, now,
                 dailyEntries>>
  /\ UNCHANGED <<costVars, groupVars, catVars, reportVars>>

\* formattedRows of invocation k, from the entries of its closure; `batch` and
\* `draft` (the invocation and the draft a row comes from) are not columns of
\* the program: they tell the rows of the table apart
FormattedRows(k) ==
  [i \in 1..Len(saves[k].drafts) |->
     LET entry == saves[k].drafts[i]
     IN  [entry_date |-> SelectedDate,
          site_id |-> saves[k].site,
          supervisor_id |-> CurrentUser.id,
          supervisor_email |-> CurrentUser.email,
          category |-> entry.category,
          rate |-> entry.rate,
          normal_hours |-> entry.normalHours,
          overtime_hours |-> entry.overtimeHours,
          num_workers |-> entry.workerCount,
          total_cost |-> entry.totalCost,
          batch |-> k, draft |-> entry.id]]

\* the insert of invocation k succeeds: every row is stored, the draft list is
\* cleared
SaveDailyInserted(k) ==
  /\ k \in 1..Len(saves)
  /\ saves[k].pc = "insert"
  /\ dailyEntries' = dailyEntries \o FormattedRows(k)
  /\ entries' = <<>>
  /\ saves' = [saves EXCEPT ![k] = Returned(@, "saved")]
  /\ UNCHANGED <<workerCategories, siteId, currentEntry, formFetch, now>>
  /\ UNCHANGED <<costVars, groupVars, catVars, reportVars>>

\* the insert of invocation k fails: no row is stored
SaveDailyInsertFailed(k) ==
  /\ k \in 1..Len(saves)
  /\ saves[k].pc = "insert"
  /\ saves' = [saves EXCEPT ![k] = Returned(@, "failed")]
  /\ UNCHANGED <<workerCategories, siteId, entries, currentEntry, formFetch, now,
                 dailyEntries>>
  /\ UNCHANGED <<costVars, groupVars, catVars, reportVars>>

FormNext ==
  \/ FormFetchCategoriesOk
  \/ FormFetchCategoriesError
  \/ \E site \in {"site1"} : SetSiteId(site)
  \/ \E id \in {"c1"} : SetCategory(id)
  \/ AddEntryNoCategory
  \/ \E t \in 0..MaxClock : AddEntry(t)
  \/ \E id \in 0..MaxClock : RemoveEntry(id)
  \/ SaveDailyNoSite
  \/ SaveDailyNoEntries
  \/ SaveDailyStart
  \/ \E k \in 1..MaxSaves, auth \in {"user", "nouser", "error"} : SaveDailyGetUser(k, auth)
  \/ \E k \in 1..MaxSaves : SaveDailyInserted(k)
  \/ \E k \in 1..MaxSaves : SaveDailyInsertFailed(k)

SpecForm == FormInit /\ [][FormNext]_vars

-----------------------------------------------------------------------------
(* The category manager (WorkerCategoryManager) *)

otherThanCat == <<costVars, groupVars, formVars, reportVars>>

CatInit == CatIdle /\ CostIdle /\ GroupIdle /\ FormIdle /\ ReportIdle

\* seq without its element at position i
RemoveAt(seq, i) == SubSeq(seq, 1, i - 1) \o SubSeq(seq, i + 1, Len(seq))

\* the order of the names in the table's collation
NameRank(name) == CASE name = "Helper" -> 1 [] name = "Mason" -> 2

\* select("*").order("name"): rows of equal name keep their table order
RECURSIVE OrderByName(_)
OrderByName(rows) ==
  IF rows = <<>> THEN <<>>
  ELSE LET last == rows[Len(rows)]
           rest == OrderByName(SubSeq(rows, 1, Len(rows) - 1))
           NotAfter(r)  == NameRank(r.name) <= NameRank(last.name)
           After(r)     == NameRank(r.name) > NameRank(last.name)
       IN  SelectSeq(rest, NotAfter) \o <<last>> \o SelectSeq(rest, After)

\* the store answers a fetchCategories request with the rows it holds now
CatFetchServe(i) ==
  /\ i \in 1..Len(catReqs)
  /\ catReqs[i].kind = "fetch" /\ catReqs[i].phase = "sent"
  /\ catReqs' = [catReqs EXCEPT ![i] = [kind |-> "fetch", phase |-> "served",
                                        data |-> OrderByName(catStore)]]
  /\ catToast' = "none"
  /\ UNCHANGED <<categories, newCategory, editingId, catCalls, catStore>>
  /\ UNCHANGED otherThanCat

\* fetchCategories receives its data: setCategories(data)
CatFetchDeliver(i) ==
  /\ i \in 1..Len(catReqs)
  /\ catReqs[i].kind = "fetch" /\ catReqs[i].phase = "served"
  /\ categories' = catReqs[i].data
  /\ catReqs' = RemoveAt(catReqs, i)
  /\ catToast' = "none"
  /\ UNCHANGED <<newCategory, editingId, catCalls, catStore>>
  /\ UNCHANGED otherThanCat

\* fetchCategories receives an error
CatFetchError(i) ==
  /\ i \in 1..Len(catReqs)
  /\ catReqs[i].kind = "fetch" /\ catReqs[i].phase = "sent"
  /\ catReqs' = RemoveAt(catReqs, i)
  /\ catToast' = "Error fetching categories"
  /\ UNCHANGED <<categories, newCategory, editingId, catCalls, catStore>>
  /\ UNCHANGED otherThanCat

\* the Category Name input
SetNewName(v) ==
  /\ newCategory' = [newCategory EXCEPT !.name = v]
  /\ catToast' = "none"
  /\ UNCHANGED <<categories, editingId, catReqs, catCalls, catStore>>
  /\ UNCHANGED otherThanCat

\* the Short Code input
SetNewShortCode(v) ==
  /\ newCategory' = [newCategory EXCEPT !.short_code = v]
  /\ catToast' = "none"
  /\ UNCHANGED <<categories, editingId, catReqs, catCalls, catStore>>
  /\ UNCHANGED otherThanCat

\* the Hourly Rate input: parseFloat(value) || 0
SetNewHourlyRate(v) ==
  /\ newCategory' = [newCategory EXCEPT !.hourly_rate = v]
  /\ catToast' = "none"
  /\ UNCHANGED <<categories, editingId, catReqs, catCalls, catStore>>
  /\ UNCHANGED otherThanCat

\* A bug for NewCategoryInvalid: a rate of 0 passes.
NewCategoryInvalidNegativeOnly(nc) ==
  nc.name = "" \/ nc.short_code = "" \/ nc.hourly_rate < 0

\* !name || !short_code || hourly_rate <= 0
NewCategoryInvalid(nc) ==
  nc.name = "" \/ nc.short_code = "" \/ nc.hourly_rate <= 0

\* addCategory with a form that fails validation
AddCategoryInvalid ==
  /\ NewCategoryInvalid(newCategory)
  /\ catToast' = "Validation Error"
  /\ UNCHANGED <<categories, newCategory, editingId, catReqs, catCalls, catStore>>
  /\ UNCHANGED otherThanCat

\* addCategory with a valid form: the insert is sent
AddCategorySend ==
  /\ ~NewCategoryInvalid(newCategory)
  /\ catCalls < MaxCatCalls
  /\ catCalls' = catCalls + 1
  /\ catReqs' = Append(catReqs,
        [kind |-> "insert",
         row |-> [name |-> newCategory.name,
                  short_code |-> newCategory.short_code,
                  hourly_rate |-> newCategory.hourly_rate,
                  overtime_multiplier |-> newCategory.overtime_multiplier,
                  is_active |-> TRUE]])
  /\ catToast' = "none"
  /\ UNCHANGED <<categories, newCategory, editingId, catStore>>
  /\ UNCHANGED otherThanCat

\* the insert succeeds: the row is stored under a new id, the form is reset and
\* fetchCategories is called
AddCategoryInserted(i) ==
  /\ i \in 1..Len(catReqs)
  /\ catReqs[i].kind = "insert"
  /\ catStore' = Append(catStore, catReqs[i].row @@ [id |-> Len(catStore) + 1])
  /\ newCategory' = EmptyNewCategory
  /\ catReqs' = Append(RemoveAt(catReqs, i), [kind |-> "fetch", phase |-> "sent"])
  /\ catToast' = "Success"
  /\ UNCHANGED <<categories, editingId, catCalls>>
  /\ UNCHANGED otherThanCat

\* the insert fails
AddCategoryError(i) ==
  /\ i \in 1..Len(catReqs)
  /\ catReqs[i].kind = "insert"
  /\ catReqs' = RemoveAt(catReqs, i)
  /\ catToast' = "Error"
  /\ UNCHANGED <<categories, newCategory, editingId, catCalls, catStore>>
  /\ UNCHANGED otherThanCat

\* updateCategory(id, updates): the update is sent
UpdateCategorySend(id, field, value) ==
  /\ catCalls < MaxCatCalls
  /\ catCalls' = catCalls + 1
  /\ catReqs' = Append(catReqs, [kind |-> "update", id |-> id, field |-> field,
                                 value |-> value])
  /\ catToast' = "none"
  /\ UNCHANGED <<categories, newCategory, editingId, catStore>>
  /\ UNCHANGED otherThanCat

\* the Active switch of a listed category: toggleActive(id, is_active)
ToggleActive(k) ==
  /\ k \in 1..Len(categories)
  /\ UpdateCategorySend(categories[k].id, "is_active", ~categories[k].is_active)

\* the Edit / Cancel button of a listed category
SetEditingId(k) ==
  /\ k \in 1..Len(categories)
  /\ editingId' = IF editingId = categories[k].id THEN NullId ELSE categories[k].id
  /\ catToast' = "none"
  /\ UNCHANGED <<categories, newCategory, catReqs, catCalls, catStore>>
  /\ UNCHANGED otherThanCat

\* the Hourly Rate input of the category being edited: parseFloat(value) || 0
EditHourlyRate(k, v) ==
  /\ k \in 1..Len(categories)
  /\ editingId = categories[k].id
  /\ UpdateCategorySend(categories[k].id, "hourly_rate", v)

\* the OT Multiplier input of the category being edited:
\* parseFloat(value) || 1.5
EditMultiplier(k, v) ==
  /\ k \in 1..Len(categories)
  /\ editingId = categories[k].id
  /\ UpdateCategorySend(categories[k].id, "overtime_multiplier", v)

\* update(updates).eq("id", id) on the table
ApplyUpdate(rows, req) ==
  [k \in 1..Len(rows) |->
     IF rows[k].id # req.id THEN rows[k]
     ELSE IF req.field = "is_active" THEN [rows[k] EXCEPT !.is_active = req.value]
     ELSE IF req.field = "hourly_rate" THEN [rows[k] EXCEPT !.hourly_rate = req.value]
     ELSE [rows[k] EXCEPT !.overtime_multiplier = req.value]]

\* the update succeeds: fetchCategories is called and editing ends
UpdateCategoryUpdated(i) ==
  /\ i \in 1..Len(catReqs)
  /\ catReqs[i].kind = "update"
  /\ catStore' = ApplyUpdate(catStore, catReqs[i])
  /\ catReqs' = Append(RemoveAt(catReqs, i), [kind |-> "fetch", phase |-> "sent"])
  /\ editingId' = NullId
  /\ catToast' = "Updated"
  /\ UNCHANGED <<categories, newCategory, catCalls>>
  /\ UNCHANGED otherThanCat

\* A bug for UpdateCategoryError: the failed update ends the editing as a
\* successful one does.
UpdateCategoryErrorEndsEditing(i) ==
  /\ i \in 1..Len(catReqs)
  /\ catReqs[i].kind = "update"
  /\ catReqs' = RemoveAt(catReqs, i)
  /\ catToast' = "Update Error"
  /\ editingId' = NullId
  /\ UNCHANGED <<categories, newCategory, catCalls, catStore>>
  /\ UNCHANGED otherThanCat

\* the update fails
UpdateCategoryError(i) ==
  /\ i \in 1..Len(catReqs)
  /\ catReqs[i].kind = "update"
  /\ catReqs' = RemoveAt(catReqs, i)
  /\ catToast' = "Update Error"
  /\ UNCHANGED <<categories, newCategory, editingId, catCalls, catStore>>
  /\ UNCHANGED otherThanCat

CatNext ==
  \/ \E i \in 1..MaxCatCalls + 1 : CatFetchServe(i)
  \/ \E i \in 1..MaxCatCalls + 1 : CatFetchDeliver(i)
  \/ \E i \in 1..MaxCatCalls + 1 : CatFetchError(i)
  \/ \E v \in {"", "Helper"} : SetNewName(v)
  \/ \E v \in {"", "H"} : SetNewShortCode(v)
  \/ \E v \in {0, 60} : SetNewHourlyRate(v)
  \/ AddCategoryInvalid
  \/ AddCategorySend
  \/ \E i \in 1..MaxCatCalls + 1 : AddCategoryInserted(i)
  \/ \E i \in 1..MaxCatCalls + 1 : AddCategoryError(i)
  \/ \E k \in 1..MaxCatCalls + 1 : ToggleActive(k)
  \/ \E k \in 1..MaxCatCalls + 1 : SetEditingId(k)
  \/ \E k \in 1..MaxCatCalls + 1, v \in {0, 80} : EditHourlyRate(k, v)
  \/ \E k \in 1..MaxCatCalls + 1, v \in {5} : EditMultiplier(k, v)
  \/ \E i \in 1..MaxCatCalls + 1 : UpdateCategoryUpdated(i)
  \/ \E i \in 1..MaxCatCalls + 1 : UpdateCategoryError(i)

SpecCat == CatInit /\ [][CatNext]_vars

-----------------------------------------------------------------------------
(* The report screen (ReportsSection) *)

otherThanReport == <<costVars, groupVars, formVars, catVars>>

ReportInit == ReportIdle /\ CostIdle /\ GroupIdle /\ FormIdle /\ CatIdle

\* the daily_entries table as the report screen finds it
ReportStore ==
  LET Row(d, site, name, rate) ==
        [entry_date |-> d, category |-> name, rate |-> rate, normal_hours |-> 8,
         overtime_hours |-> 2, num_workers |-> 3, site_id |-> site,
         supervisor_email |-> "supervisor@site"]
  IN  <<Row(D01, "site1", "Mason", 100),
        Row(WithT(D02), "site1", "Helper", 60),
        Row(D02, "site2", "Mason", 100) @@ [overtime_multiplier |-> 20],
        Row(D03, "site2", "Helper", 60)>>

\* the End Date input is left at its initial value, the current day
EndDate == D03

\* the rows the query of a request selects: gte("entry_date", startDate),
\* lte("entry_date", endDate) and, unless the site is "all",
\* eq("site_id", siteId); the table compares dates by calendar day
QueryResult(req) ==
  LET Selected(row) ==
        /\ localeCompare(CalendarDay(row.entry_date), req.start) >= 0
        /\ localeCompare(CalendarDay(row.entry_date), req.end) <= 0
        /\ (req.site # "all" => row.site_id = req.site)
  IN  SelectSeq(ReportStore, Selected)

\* A bug for RefreshEnabled: the button is never disabled.
RefreshAlwaysEnabled == TRUE

\* the Refresh button: disabled={loading}
RefreshEnabled == ~loading

\* fetchData up to its await: setLoading(true), the query is sent
FetchDataStart ==
  /\ Len(reportReqs) < MaxReportReqs
  /\ loading' = TRUE
  /\ reportReqs' = Append(reportReqs, [site |-> reportSiteId, start |-> startDate,
                                       end |-> EndDate])
  /\ UNCHANGED <<reportData, reportSiteId, startDate, reportToast>>

\* the mount effect calls fetchData
ReportMount ==
  /\ ~mounted
  /\ mounted' = TRUE
  /\ FetchDataStart
  /\ UNCHANGED otherThanReport

\* a click on Refresh calls fetchData
Refresh ==
  /\ mounted
  /\ RefreshEnabled
  /\ FetchDataStart
  /\ UNCHANGED mounted
  /\ UNCHANGED otherThanReport

\* the Site select of the filters
SetReportSiteId(site) ==
  /\ mounted
  /\ reportSiteId' = site
  /\ UNCHANGED <<mounted, loading, reportData, startDate, reportReqs, reportToast>>
  /\ UNCHANGED otherThanReport

\* the Start Date input
SetStartDate(d) ==
  /\ mounted
  /\ startDate' = d
  /\ UNCHANGED <<mounted, loading, reportData, reportSiteId, reportReqs,
                 reportToast>>
  /\ UNCHANGED otherThanReport

\* the query of request i returns its rows: they are grouped and shown, and
\* the finally block clears loading
FetchDataLoaded(i) ==
  /\ i \in 1..Len(reportReqs)
  /\ \E data \in {QueryResult(reportReqs[i])} :
       reportData' = groupEntriesByDate(data)
  /\ reportReqs' = RemoveAt(reportReqs, i)
  /\ reportToast' = "Report Loaded"
  /\ loading' = FALSE
  /\ UNCHANGED <<mounted, reportSiteId, startDate>>
  /\ UNCHANGED otherThanReport

\* the query of request i returns an error: fetchData returns from inside the
\* try block, and the finally block clears loading
FetchDataError(i) ==
  /\ i \in 1..Len(reportReqs)
  /\ reportReqs' = RemoveAt(reportReqs, i)
  /\ reportToast' = "Error fetching data"
  /\ loading' = FALSE
  /\ UNCHANGED <<mounted, reportData, reportSiteId, startDate>>
  /\ UNCHANGED otherThanReport

\* the await of request i throws: the catch block notifies, and the finally
\* block clears loading
FetchDataThrown(i) ==
  /\ i \in 1..Len(reportReqs)
  /\ reportReqs' = RemoveAt(reportReqs, i)
  /\ reportToast' = "Unexpected Error"
  /\ loading' = FALSE
  /\ UNCHANGED <<mounted, reportData, reportSiteId, startDate>>
  /\ UNCHANGED otherThanReport

FetchDataReturns ==
  \E i \in 1..MaxReportReqs :
    FetchDataError(i) \/ FetchDataThrown(i) \/ FetchDataLoaded(i)

ReportNext ==
  \/ ReportMount
  \/ Refresh
  \/ \E site \in {"all", "site1", "site2"} : SetReportSiteId(site)
  \/ \E d \in {D01, D02, D03} : SetStartDate(d)
  \/ \E i \in 1..MaxReportReqs : FetchDataLoaded(i)
  \/ \E i \in 1..MaxReportReqs : FetchDataError(i)
  \/ \E i \in 1..MaxReportReqs : FetchDataThrown(i)

SpecReport == ReportInit /\ [][ReportNext]_vars

\* every request made of the store is answered in the end
SpecReportFair == SpecReport /\ WF_vars(FetchDataReturns)

-----------------------------------------------------------------------------
(* Claims about the cost formula (SpecCost) *)

\* rate*normalHours*workers + rate*overtimeHours*m*workers, in tenths
FormulaCost(rate, nh, oh, wc, m) == rate * nh * wc * 10 + rate * oh * m * wc

\* C1: for every input and every multiplier m, the cost the entry form computes
\* and the cost the report computes for the entry both equal
\* rate*normalHours*workers + rate*overtimeHours*m*workers, where an entry
\* without a multiplier is costed as if m were 1.5.
C1_CostFormula ==
  LET m == IF "m" \in DOMAIN costIn THEN costIn.m ELSE 15
      expected == FormulaCost(costIn.rate, costIn.nh, costIn.oh, costIn.wc, m)
  IN  /\ "form" \in costDone => formCost = expected
      /\ "report" \in costDone => reportCost = expected

-----------------------------------------------------------------------------
(* Claims about groupEntriesByDate (SpecGroup) *)

Range(seq) == {seq[i] : i \in 1..Len(seq)}

RECURSIVE SumSeq(_)
SumSeq(nums) == IF nums = <<>> THEN 0 ELSE Head(nums) + SumSeq(Tail(nums))

Workers(rows) == SumSeq([i \in 1..Len(rows) |-> rows[i].num_workers])
Costs(rows)   == SumSeq([i \in 1..Len(rows) |-> EntryCost(rows[i])])

\* C2: every entry lands in the group whose date is the entry's calendar day,
\* whether its entry_date has a "T" suffix, a space suffix or none.
C2_DateTruncation ==
  groupPc = "done" =>
    \A i \in 1..Len(entriesIn) :
      \E k \in 1..Len(grouped) :
        /\ grouped[k].date = CalendarDay(entriesIn[i].entry_date)
        /\ entriesIn[i] \in Range(grouped[k].entries)

\* what a sequence of reports says, order apart: per day the totals and the
\* set of category subtotals
Summary(reports) ==
  {[date |-> r.date, totalWorkers |-> r.totalWorkers, totalCost |-> r.totalCost,
    categories |-> Range(r.categories)] : r \in Range(reports)}

Permuted(seq, p) == [i \in 1..Len(seq) |-> seq[p[i]]]

C5_StrictlyDescending ==
  groupPc = "done" =>
    \A i, j \in 1..Len(grouped) :
      i < j => /\ localeCompare(grouped[i].date, grouped[j].date) > 0
               /\ CalendarDay(grouped[i].date) # CalendarDay(grouped[j].date)

-----------------------------------------------------------------------------
(* Claims about the entry form (SpecForm) *)

\* the rows of the table that invocation k of saveDaily wrote
RowsOfBatch(k) == LET OfBatch(row) == row.batch = k IN SelectSeq(dailyEntries, OfBatch)

Outstanding(k) == saves[k].pc \in {"getUser", "insert"}

\* C6: a saveDaily invocation whose precondition fails (no site chosen, empty
\* draft list, getUser answering with an error or without a user) returns
\* rejected on that step, which leaves the draft list and the entry store as
\* they were, and no row of a rejected invocation is ever in the store.
C6_RejectsWithoutWrite ==
  /\ [](\A k \in 1..Len(saves) : saves[k].pc = "rejected" => RowsOfBatch(k) = <<>>)
  /\ [][\A k \in 1..Len(saves') :
          LET invoked  == k > Len(saves)
              answered == ~invoked /\ saves[k].pc = "getUser" /\ saves'[k].pc # "getUser"
              fails    == \/ invoked /\ (siteId = "" \/ Len(entries) = 0)
                          \/ answered /\ saves'[k].auth \in {"error", "nouser"}
          IN  fails => /\ saves'[k].pc = "rejected"
                       /\ entries' = entries
                       /\ dailyEntries' = dailyEntries]_vars

\* C6 witness: with drafts listed, one invocation was rejected for the missing
\* site and one because getUser returned no user, and nothing was written.
C6_Witness ==
  /\ Len(entries) > 0
  /\ dailyEntries = <<>>
  /\ \E j, k \in 1..Len(saves) :
        /\ saves[j].pc = "rejected" /\ saves[j].auth = "none"
        /\ saves[k].pc = "rejected" /\ saves[k].auth = "nouser"

\* C7: when the insert of a saveDaily invocation completes, either it is
\* reported saved, its rows are in the store and the draft list is empty, or it
\* is reported failed, none of its rows is in the store and the draft list is
\* the one the invocation was triggered with.
C7_SavedOrFailed ==
  [][\A k \in 1..Len(saves) :
       (saves[k].pc = "insert" /\ saves'[k].pc # "insert") =>
         \/ /\ saves'[k].pc = "saved"
            /\ RowsOfBatch(k)' = FormattedRows(k)
            /\ entries' = <<>>
         \/ /\ saves'[k].pc = "failed"
            /\ RowsOfBatch(k)' = <<>>
            /\ entries' = saves[k].drafts]_vars

\* C9: at most one request of saveDaily is outstanding at any time (the Save
\* control being disabled while one is).
C9_OneRequestAtATime ==
  Cardinality({k \in 1..Len(saves) : Outstanding(k)}) <= 1

-----------------------------------------------------------------------------
(* Claims about the category manager (SpecCat) *)

\* C8: addCategory sends no insert for a form whose name or short code is
\* empty or whose hourly rate is not strictly positive, and the step that
\* rejects the form leaves the form, the local list, the outstanding requests
\* and the category store as they were.
C8_AddCategoryValidation ==
  /\ [](\A i \in 1..Len(catReqs) :
          catReqs[i].kind = "insert" =>
            /\ catReqs[i].row.name # ""
            /\ catReqs[i].row.short_code # ""
            /\ catReqs[i].row.hourly_rate > 0)
  /\ [][catToast' = "Validation Error" =>
          UNCHANGED <<categories, newCategory, catReqs, catStore>>]_vars

\* C8 witness: a form with a name, a short code and the rate 0 was submitted
\* and rejected; no request is outstanding and no row was created.
C8_Witness ==
  /\ catToast = "Validation Error"
  /\ newCategory.name # "" /\ newCategory.short_code # ""
  /\ newCategory.hourly_rate = 0
  /\ catReqs = <<>>
  /\ catStore = CatStoreInit

-----------------------------------------------------------------------------
(* Claims about the report screen (SpecReportFair) *)

\* C10: loading is true exactly while a fetchData request is outstanding, a
\* request is started only while loading is false (Refresh is disabled
\* otherwise), so at most one is ever outstanding, and loading always returns
\* to false.
C10_LoadingFlag ==
  /\ [](loading <=> Len(reportReqs) > 0)
  /\ [](Len(reportReqs) <= 1)
  /\ [][Len(reportReqs') > Len(reportReqs) => ~loading /\ loading']_vars
  /\ [](loading => ~RefreshEnabled)
  /\ (loading ~> ~loading)

\* C10 witness: a refresh after the first load has shown its data; a second
\* request is outstanding and loading is set.
C10_Witness ==
  /\ mounted /\ loading
  /\ Len(reportReqs) = 1
  /\ reportData # <<>>

-----------------------------------------------------------------------------
(* The three screens together *)

\* The screens share no state: a behaviour of the application, seen from one
\* screen, is a behaviour of that screen with the others as constructed.
ScreensInit == CostIdle /\ GroupIdle /\ FormIdle /\ CatIdle /\ ReportIdle

ScreensNext ==
  \/ CatIdle /\ ReportIdle /\ FormNext
  \/ FormIdle /\ ReportIdle /\ CatNext
  \/ FormIdle /\ CatIdle /\ ReportNext

SpecScreens == ScreensInit /\ [][ScreensNext]_vars

-----------------------------------------------------------------------------
(* Claims about the rows of the category store (SpecCat) *)

\* C12: every category in the category store has a strictly positive hourly
\* rate and an overtime multiplier of at least 1 (10 tenths).
C12_RatesPositive ==
  \A i \in 1..Len(catStore) :
    /\ catStore[i].hourly_rate > 0
    /\ catStore[i].overtime_multiplier >= 10

-----------------------------------------------------------------------------
(* Claims about the draft list (SpecForm) *)

\* C13: the ids of the items in the draft list are pairwise distinct.
C13_DistinctIds ==
  \A i, j \in 1..Len(entries) : i # j => entries[i].id # entries[j].id

-----------------------------------------------------------------------------
(* From the entry form to the report: entries saved, then read back *)

\* the hours and head counts typed into the Add Worker card
EntryInputs ==
  [category : {"c1", "c2"}, normalHours : {0, 8}, overtimeHours : {0, 2},
   workerCount : {1, 3}]

\* the entry form with its categories loaded, a site chosen and the Add
\* Worker card filled in
SavedInit ==
  /\ workerCategories = SelectSeq(FormCategoryStore, IsActive)
  /\ formFetch = "done"
  /\ siteId = "site1"
  /\ entries = <<>>
  /\ currentEntry \in EntryInputs
  /\ now = 0
  /\ saves = <<>>
  /\ dailyEntries = <<>>
  /\ CostIdle /\ GroupIdle /\ CatIdle /\ ReportIdle

\* the report screen reads the rows of daily_entries and groups them
\* (fetchData: setReportData(groupEntriesByDate(data)))
ReportGroupsSaved ==
  /\ dailyEntries # entriesIn
  /\ entriesIn' = dailyEntries
  /\ grouped' = groupEntriesByDate(dailyEntries)
  /\ groupPc' = "done"
  /\ UNCHANGED <<costVars, formVars, catVars, reportVars>>

SavedNext ==
  \/ \E id \in {"c1", "c2"} : SetCategory(id)
  \/ \E t \in 0..MaxClock : AddEntry(t)
  \/ SaveDailyStart
  \/ \E k \in 1..MaxSaves, auth \in {"user", "nouser", "error"} : SaveDailyGetUser(k, auth)
  \/ \E k \in 1..MaxSaves : SaveDailyInserted(k)
  \/ \E k \in 1..MaxSaves : SaveDailyInsertFailed(k)
  \/ ReportGroupsSaved

SpecSaved == SavedInit /\ [][SavedNext]_vars

\* C14: for every row the entry form saved, the cost the report computes for
\* it equals the row's stored total_cost, and so the total of a day's report is
\* the sum of the stored costs of its rows.
C14_ReportCostIsStoredCost ==
  groupPc = "done" =>
    \A r \in 1..Len(grouped) :
      /\ \A i \in 1..Len(grouped[r].entries) :
           EntryCost(grouped[r].entries[i]) = grouped[r].entries[i].total_cost
      /\ grouped[r].totalCost =
           SumSeq([i \in 1..Len(grouped[r].entries) |-> grouped[r].entries[i].total_cost])

-----------------------------------------------------------------------------
(* Claims about drafts across a save (SpecForm) *)

\* the ids of the drafts that the rows of the table come from, batch by batch
WrittenBy(k) == {RowsOfBatch(k)[i].draft : i \in 1..Len(RowsOfBatch(k))}

\* C15: a save that succeeds removes from the draft list only items that were
\* rows of its batch, and no draft is written to the entry store by two
\* batches.
C15_NoDraftLostOrDuplicated ==
  /\ [][\A k \in 1..Len(saves) :
          (saves[k].pc = "insert" /\ saves'[k].pc = "saved") =>
            \A i \in 1..Len(entries) :
              entries[i] \in Range(entries') \/ entries[i] \in Range(saves[k].drafts)]_vars
  /\ [](\A j, k \in 1..Len(saves) : j # k => WrittenBy(j) \cap WrittenBy(k) = {})

-----------------------------------------------------------------------------
(* The category manager when no request fails *)

\* CatNext without the steps on which a request returns an error
CatOkNext ==
  \/ \E i \in 1..MaxCatCalls + 1 : CatFetchServe(i)
  \/ \E i \in 1..MaxCatCalls + 1 : CatFetchDeliver(i)
  \/ \E v \in {"", "Helper"} : SetNewName(v)
  \/ \E v \in {"", "H"} : SetNewShortCode(v)
  \/ \E v \in {0, 60} : SetNewHourlyRate(v)
  \/ AddCategoryInvalid
  \/ AddCategorySend
  \/ \E i \in 1..MaxCatCalls + 1 : AddCategoryInserted(i)
  \/ \E k \in 1..MaxCatCalls + 1 : ToggleActive(k)
  \/ \E k \in 1..MaxCatCalls + 1 : SetEditingId(k)
  \/ \E k \in 1..MaxCatCalls + 1, v \in {0, 80} : EditHourlyRate(k, v)
  \/ \E k \in 1..MaxCatCalls + 1, v \in {5} : EditMultiplier(k, v)
  \/ \E i \in 1..MaxCatCalls + 1 : UpdateCategoryUpdated(i)

SpecCatOk == CatInit /\ [][CatOkNext]_vars

\* C16: when no request is outstanding (and none has failed), the displayed
\* category list is the content of the category store, in the order of the
\* query.
C16_ListEqualsStore ==
  catReqs = <<>> => categories = OrderByName(catStore)

====
